---- MODULE Spec2Model ----
(***************************************************************************)
(* Model of policoop_ems.py (Tryton module "Emergency Management"):        *)
(*   - TransportRequest: create with code assignment, the code_uniq SQL    *)
(*     constraint, open_support / close_support;                           *)
(*   - TransportRequest.on_change_with_urladdr;                            *)
(*   - InventoryLine: the quantity check constraint, get_move, cancel_move;*)
(*   - InventoryLine.__register__ (migration of the legacy move column).   *)
(* Each handler runs in the framework's single ambient transaction: a      *)
(* handler that raises leaves the stored rows as they were.                *)
(***************************************************************************)
EXTENDS Integers, Sequences

VARIABLES
    requests,      \* rows of policoop_transport_request, row id = index
    config,        \* the policoop.sequences singleton row
    number_next,   \* next number of the ir.sequence the configuration names
    last,          \* the last handler call and how it ended
    latitude,      \* TransportRequest.latitude of the record being edited
    longitude,     \* TransportRequest.longitude of the record being edited
    urladdr,       \* value returned by on_change_with_urladdr
    lines,         \* rows of policoop_transport_line, row id = index
    moves,         \* rows of stock_move that originate from the lines
    move,          \* the Move instance returned by the last get_move
    calls,         \* calls made on stock.move by the last handler call
    column_exist,  \* legacy column "move" of policoop_transport_line exists
    constraint,    \* legacy constraint inventory_product_uniq exists
    line_move,     \* legacy column move: line id -> <<move id>>, <<>> if NULL
    move_origin    \* stock_move.origin: move id -> reference

vars == <<requests, config, number_next, last, latitude, longitude, urladdr,
          lines, moves, move, calls, column_exist, constraint, line_move,
          move_origin>>

request_vars == <<requests, config, number_next>>
url_vars == <<latitude, longitude, urladdr>>
stock_vars == <<lines, moves, move, calls>>
register_vars == <<column_exist, constraint, line_move, move_origin>>

(***************************************************************************)
(* Python values                                                           *)
(***************************************************************************)
\* Python's None, and a key that is not in a values dictionary.
None == "<None>"
Absent == "<absent>"

\* bool(x) of a str-or-None value: None and '' are false.
Truthy(x) == x \notin {None, Absent, ""}

Digit(d) ==
    CASE d = 0 -> "0" [] d = 1 -> "1" [] d = 2 -> "2" [] d = 3 -> "3"
      [] d = 4 -> "4" [] d = 5 -> "5" [] d = 6 -> "6" [] d = 7 -> "7"
      [] d = 8 -> "8" [] d = 9 -> "9"

\* str() of an integer.
RECURSIVE str(_)
str(n) ==
    IF n < 0 THEN "-" \o str(-n)
    ELSE IF n < 10 THEN Digit(n)
    ELSE str(n \div 10) \o Digit(n % 10)

(***************************************************************************)
(* Bounds                                                                  *)
(***************************************************************************)
MaxRequests == 3
MaxBatch == 2
MaxNumber == 3

(***************************************************************************)
(* TransportRequest                                                        *)
(***************************************************************************)
\* Keys of the selection of TransportRequest.state.
state_selection == {None, "open", "closed"}

default_state == "open"

\* values.get('code') and values.get('state') of a values dictionary.
get(values, key) == IF values[key] = Absent THEN None ELSE values[key]

\* Sequence.get_id: the sequence's next number as text.
get_id(number) == str(number)

\* A create that draws a code from the sequence for every record.
lacks_code_always(values) == TRUE

\* "if not values.get('code')": the record gets a generated code.
lacks_code(values) == ~Truthy(get(values, "code"))

\* The loop of create over vlist[i..]: fills in the codes that are missing.
\* Returns the error raised (None if none), the vlist and the sequence state.
RECURSIVE assign_codes(_, _, _, _)
assign_codes(vlist, i, cfg, number) ==
    IF i > Len(vlist) THEN [error |-> None, vlist |-> vlist, number |-> number]
    ELSE IF lacks_code(vlist[i])
      THEN IF cfg # "set"
             \* config.transport_request_code_sequence is None: None.id
             THEN [error |-> "AttributeError", vlist |-> vlist,
                   number |-> number]
             ELSE assign_codes(
                    [vlist EXCEPT ![i].code = get_id(number)],
                    i + 1, cfg, number + 1)
      ELSE assign_codes(vlist, i + 1, cfg, number)

\* ModelStorage.create fills the defaults for the fields the values lack.
with_defaults(values) ==
    [code |-> values.code,
     state |-> IF values.state = Absent THEN default_state ELSE values.state]

\* The rows with the rows of vlist inserted after them.
inserted(rows, vlist) ==
    rows \o [i \in 1..Len(vlist) |-> with_defaults(vlist[i])]

\* The table without the code_uniq constraint.
code_uniq_off(rows) == TRUE

\* _sql_constraints code_uniq: Unique(t, t.code). NULLs never conflict.
code_uniq(rows) ==
    \A i, j \in 1..Len(rows) :
        (i # j /\ rows[i].code # None) => rows[i].code # rows[j].code

\* TransportRequest.create as a function of the stored state.
create_result(rows, vlist, cfg, number) ==
    LET a == assign_codes(vlist, 1, cfg, number)
        new == inserted(rows, a.vlist)
    IN  IF a.error # None
          THEN [error |-> a.error, rows |-> rows, number |-> number]
        ELSE IF ~code_uniq(new)
          THEN [error |-> "UniqueViolation", rows |-> rows, number |-> a.number]
        ELSE [error |-> None, rows |-> new, number |-> a.number]

\* The values a caller may pass for one record: no code, an empty code or an
\* explicit code; no state or one of the keys of the selection.
CodeInputs == {Absent, "", "1", "2"}
StateInputs == {Absent} \cup (state_selection \ {default_state})
Values == [code : CodeInputs, state : StateInputs]
Vlists == UNION {[1..n -> Values] : n \in 1..MaxBatch}

\* create(vlist). When it raises, the rows are as before; the numbers drawn
\* from the sequence are taken back (a table-backed sequence) or not (a
\* database sequence).
create(vlist) ==
    /\ Len(requests) + Len(vlist) <= MaxRequests
    /\ LET r == create_result(requests, vlist, config, number_next)
       IN  /\ r.number <= MaxNumber + 1
           /\ requests' = r.rows
           /\ number_next' \in IF r.error # None THEN {number_next, r.number}
                                ELSE {r.number}
           /\ last' = [op |-> "create",
                       result |-> IF r.error = None THEN "ok" ELSE r.error,
                       generated |-> \E i \in 1..Len(vlist) :
                                        ~Truthy(get(vlist[i], "code")),
                       explicit |-> \E i \in 1..Len(vlist) :
                                        Truthy(get(vlist[i], "code")),
                       srs |-> {}, already |-> FALSE]
    /\ UNCHANGED <<config, url_vars, stock_vars, register_vars>>

\* A write that stores the given values and resets the fields it is not given.
write_replacing(rows, srs, values) ==
    [i \in 1..Len(rows) |->
        IF i \in srs
          THEN [f \in DOMAIN rows[i] |->
                  IF f \in DOMAIN values THEN values[f] ELSE None]
          ELSE rows[i]]

\* ModelSQL.write(records, values) on the rows with ids srs.
write(rows, srs, values) ==
    [i \in 1..Len(rows) |->
        IF i \in srs
          THEN [f \in DOMAIN rows[i] |->
                  IF f \in DOMAIN values THEN values[f] ELSE rows[i][f]]
          ELSE rows[i]]

\* The values of close_support, written by open_support.
open_support_values_pasted == [state |-> "closed"]

open_support_values == [state |-> "open"]

close_support_values == [state |-> "closed"]

open_support(srs) ==
    /\ requests' = write(requests, srs, open_support_values)
    /\ last' = [op |-> "open_support", result |-> "ok", generated |-> FALSE,
                explicit |-> FALSE, srs |-> srs,
                already |-> \E i \in srs : requests[i].state = "open"]
    /\ UNCHANGED <<config, number_next, url_vars, stock_vars, register_vars>>

close_support(srs) ==
    /\ requests' = write(requests, srs, close_support_values)
    /\ last' = [op |-> "close_support", result |-> "ok", generated |-> FALSE,
                explicit |-> FALSE, srs |-> srs,
                already |-> \E i \in srs : requests[i].state = "closed"]
    /\ UNCHANGED <<config, number_next, url_vars, stock_vars, register_vars>>

\* The administrator creates, completes or removes the singleton row.
ConfigStates == {"missing", "unset", "set"}

sequences_write(c) ==
    /\ c # config
    /\ config' = c
    /\ last' = [op |-> "sequences_write", result |-> "ok", generated |-> FALSE,
                explicit |-> FALSE, srs |-> {}, already |-> FALSE]
    /\ UNCHANGED <<requests, number_next, url_vars, stock_vars, register_vars>>

Idle == [op |-> "none", result |-> "ok", generated |-> FALSE,
         explicit |-> FALSE, srs |-> {}, already |-> FALSE]

RequestInit ==
    /\ requests = <<>>
    /\ config = "set"
    /\ number_next = 1

UrlInit == latitude = <<>> /\ longitude = <<>> /\ urladdr = ""

StockInit == lines = <<>> /\ moves = {} /\ move = <<>> /\ calls = <<>>

RegisterInit ==
    /\ column_exist = FALSE /\ constraint = FALSE
    /\ line_move = <<>> /\ move_origin = <<>>

Init ==
    /\ requests = <<>>
    /\ config \in ConfigStates
    /\ number_next = 1
    /\ last = Idle
    /\ UrlInit /\ StockInit /\ RegisterInit

Next ==
    \/ \E vlist \in Vlists : create(vlist)
    \/ \E srs \in (SUBSET (1..Len(requests))) \ {{}} : open_support(srs)
    \/ \E srs \in (SUBSET (1..Len(requests))) \ {{}} : close_support(srs)
    \/ \E c \in ConfigStates : sequences_write(c)

\* The transport requests: create, the two lifecycle buttons, the configuration.
Spec == Init /\ [][Next]_vars

(***************************************************************************)
(* Claims on the transport requests (under Spec)                           *)
(***************************************************************************)
Ids == 1..Len(requests)

\* C1: every persisted TransportRequest has a non-empty code and no two
\* persisted requests have the same code, whatever mix of explicit and
\* generated codes the create calls used.
C1_CodeNonEmptyUnique ==
    /\ \A i \in Ids : Truthy(requests[i].code)
    /\ \A i, j \in Ids : i # j => requests[i].code # requests[j].code

\* C1 witness: a create that generated a code succeeded while a request
\* carrying the code "2" ahead of the sequence was already stored.
C1_Witness ==
    /\ last.op = "create" /\ last.result = "ok"
    /\ last.generated /\ ~last.explicit
    /\ Len(requests) >= 2
    /\ requests[1].code = "2"
    /\ requests[Len(requests)].code = "1"

\* C2: open_support on a request already 'open' leaves it 'open' (the row is
\* untouched), close_support on a request already 'closed' leaves it
\* 'closed', and applying either action a second time to the same requests
\* changes nothing.
C2_LifecycleIdempotent ==
    [][ /\ last'.op = "open_support" =>
             /\ \A i \in last'.srs :
                    requests[i].state = "open" => requests'[i] = requests[i]
             /\ write(requests', last'.srs, open_support_values) = requests'
        /\ last'.op = "close_support" =>
             /\ \A i \in last'.srs :
                    requests[i].state = "closed" => requests'[i] = requests[i]
             /\ write(requests', last'.srs, close_support_values) = requests'
      ]_vars

\* C2 witness: open_support has just run on a request that was already open.
C2_Witness ==
    /\ last.op = "open_support" /\ last.already
    /\ \A i \in last.srs : requests[i].state = "open"

\* C3: every persisted TransportRequest has state 'open' or 'closed'.
C3_StateOpenOrClosed ==
    \A i \in Ids : requests[i].state \in {"open", "closed"}

\* C4: no step changes the code of a stored request: the code stored when
\* create returned is the code stored after every later create,
\* open_support and close_support.
C4_CodeImmutable ==
    [][ /\ Len(requests') >= Len(requests)
        /\ \A i \in Ids : requests'[i].code = requests[i].code ]_vars

\* C4 witness: a request went through close_support after later requests
\* were created, and still carries a code.
C4_Witness ==
    /\ last.op = "close_support" /\ 1 \in last.srs
    /\ Len(requests) >= 2
    /\ Truthy(requests[1].code)

\* C9: with the configuration row missing or its sequence unset, a create of
\* values lacking a code raises and stores nothing (the whole batch, explicit
\* codes included); a create whose values all carry a code never fails on the
\* configuration.
C9_ConfigError ==
    [][ last'.op = "create" =>
          /\ (last'.generated /\ config # "set") =>
                (last'.result = "AttributeError" /\ requests' = requests)
          /\ last'.result = "AttributeError" =>
                (last'.generated /\ config # "set" /\ requests' = requests)
      ]_vars

\* C9 witness: a batch mixing explicit and missing codes failed on the
\* configuration while requests were stored.
C9_Witness ==
    /\ last.op = "create" /\ last.result = "AttributeError"
    /\ last.generated /\ last.explicit
    /\ config # "set"
    /\ Len(requests) >= 1

(***************************************************************************)
(* TransportRequest.on_change_with_urladdr                                 *)
(***************************************************************************)
\* A Numeric field holds None, written <<>>, or a Decimal, written <<n>>; the
\* Decimals drawn here are the whole numbers -MaxCoordinate..MaxCoordinate.
MaxCoordinate == 5

Coordinates == {<<>>} \cup {<<n>> : n \in (-MaxCoordinate)..MaxCoordinate}

\* bool(x) of a Decimal-or-None value: None and Decimal(0) are false.
TruthyNumeric(x) == x # <<>> /\ x[1] # 0

\* on_change_with_urladdr as a function of the two fields.
on_change_with_urladdr(lat, lon) ==
    IF TruthyNumeric(lat) /\ TruthyNumeric(lon)
      THEN "http://openstreetmap.org/?mlat=" \o str(lat[1])
             \o "&mlon=" \o str(lon[1])
      ELSE ""

\* The user edits the latitude; the client recomputes urladdr.
on_change_latitude(value) ==
    /\ value # latitude
    /\ latitude' = value
    /\ urladdr' = on_change_with_urladdr(value, longitude)
    /\ UNCHANGED <<longitude, last, request_vars, stock_vars, register_vars>>

\* The user edits the longitude; the client recomputes urladdr.
on_change_longitude(value) ==
    /\ value # longitude
    /\ longitude' = value
    /\ urladdr' = on_change_with_urladdr(latitude, value)
    /\ UNCHANGED <<latitude, last, request_vars, stock_vars, register_vars>>

UrlSpecInit ==
    /\ UrlInit /\ RequestInit /\ StockInit /\ RegisterInit
    /\ last = Idle

UrlNext ==
    \/ \E value \in Coordinates : on_change_latitude(value)
    \/ \E value \in Coordinates : on_change_longitude(value)

\* One record being edited: the coordinates and the derived map link.
UrlSpec == UrlSpecInit /\ [][UrlNext]_vars

\* C5: when both coordinates are set, 0 included, urladdr is the
\* OpenStreetMap template with the two values substituted; when either is
\* unset it is the empty string.
C5_UrlForEverySetPair ==
    IF latitude # <<>> /\ longitude # <<>>
      THEN urladdr = "http://openstreetmap.org/?mlat=" \o str(latitude[1])
                       \o "&mlon=" \o str(longitude[1])
      ELSE urladdr = ""

(***************************************************************************)
(* InventoryLine: quantity check, get_move, cancel_move                    *)
(***************************************************************************)
MaxLines == 2
MaxQuantity == 2
MaxMoves == 2

\* The unit of measure of the products' default_uom. Quantities are counted
\* in steps of the unit's rounding precision, so rounding leaves them whole.
Uoms == {[name |-> "Dozen", factor |-> 12]}

\* Uom.compute_qty(from_uom, qty, to_uom) within one category.
compute_qty(from_uom, qty, to_uom) ==
    IF qty = 0 THEN qty ELSE (qty * from_uom.factor) \div to_uom.factor

\* The locations of the line's inventory context.
inventory == [location |-> "location", lost_found |-> "lost_found"]

\* _sql_constraints check_line_qty_pos: Check(t, t.quantity >= 0).
check_line_qty_pos(line) == line.quantity >= 0

\* get_move's delta with the sign of the quantity kept.
delta_qty_unsigned(line) == compute_qty(line.uom, line.quantity, line.uom)

\* get_move: delta_qty = Uom.compute_qty(self.uom, -self.quantity, self.uom).
delta_qty(line) == compute_qty(line.uom, - line.quantity, line.uom)

\* The swap of get_move with the quantity left negative.
oriented_signed(from_location, to_location, delta) ==
    IF delta < 0
      THEN [from_location |-> to_location, to_location |-> from_location,
            quantity |-> delta]
      ELSE [from_location |-> from_location, to_location |-> to_location,
            quantity |-> delta]

\* get_move: "if delta_qty < 0" swaps the locations and negates the quantity.
oriented(from_location, to_location, delta) ==
    IF delta < 0
      THEN [from_location |-> to_location, to_location |-> from_location,
            quantity |-> - delta]
      ELSE [from_location |-> from_location, to_location |-> to_location,
            quantity |-> delta]

\* InventoryLine.get_move of the line with id l: <<>> for None, else the
\* Move instance.
get_move_result(l, line) ==
    LET delta == delta_qty(line)
        o == oriented(inventory.location, inventory.lost_found, delta)
    IN  IF delta = 0 THEN <<>>
        ELSE <<[from_location |-> o.from_location,
                to_location |-> o.to_location,
                quantity |-> o.quantity,
                uom |-> line.uom,
                origin |-> l]>>

StockIdle == [op |-> "none", result |-> "ok", lines |-> {}]

\* InventoryLine.create of one line; the check constraint rejects a negative
\* quantity.
line_create(quantity, uom) ==
    /\ Len(lines) < MaxLines
    /\ LET line == [quantity |-> quantity, uom |-> uom]
       IN  IF check_line_qty_pos(line)
             THEN /\ lines' = Append(lines, line)
                  /\ last' = [op |-> "line_create", result |-> "ok",
                              lines |-> {Len(lines) + 1}]
             ELSE /\ lines' = lines
                  /\ last' = [op |-> "line_create",
                              result |-> "CheckViolation", lines |-> {}]
    /\ calls' = <<>>
    /\ UNCHANGED <<moves, move, request_vars, url_vars, register_vars>>

get_move(l) ==
    /\ move' = get_move_result(l, lines[l])
    /\ last' = [op |-> "get_move", result |-> "ok", lines |-> {l}]
    /\ calls' = <<>>
    /\ UNCHANGED <<lines, moves, request_vars, url_vars, register_vars>>

\* The caller saves the Move instance get_move returned: a stock.move row in
\* state draft whose origin is the line (it shows in line.moves).
FreeMoveIds == (1..MaxMoves) \ {m.id : m \in moves}

move_save ==
    /\ move # <<>>
    /\ FreeMoveIds # {}
    /\ LET id == CHOOSE i \in FreeMoveIds : \A j \in FreeMoveIds : i <= j
       IN  moves' = moves \cup {[id |-> id, state |-> "draft",
                                 origin |-> move[1].origin,
                                 quantity |-> move[1].quantity,
                                 from_location |-> move[1].from_location,
                                 to_location |-> move[1].to_location]}
    /\ move' = <<>>
    /\ last' = [op |-> "move_save", result |-> "ok",
                lines |-> {move[1].origin}]
    /\ calls' = <<>>
    /\ UNCHANGED <<lines, request_vars, url_vars, register_vars>>

\* cancel_move collecting the moves of every line.
collected_all(ls) == moves

\* cancel_move: moves = [m for l in lines for m in l.moves if l.moves].
collected(ls) == {m \in moves : m.origin \in ls}

\* Move.cancel(moves) and Move.delete(moves) on the rows.
Move_cancel(rows, ms) ==
    {IF m \in ms THEN [m EXCEPT !.state = "cancel"] ELSE m : m \in rows}

Move_delete(rows, ms) == {m \in rows : m.id \notin {x.id : x \in ms}}

\* cancel_move(lines). failure: the stock subsystem call that raises, if any.
cancel_move(ls, failure) ==
    LET ms == collected(ls)
        ids == {m.id : m \in ms}
        cancelled == Move_cancel(moves, ms)
    IN  /\ calls' = IF failure = "cancel"
                      THEN <<[op |-> "cancel", ids |-> ids]>>
                      ELSE <<[op |-> "cancel", ids |-> ids],
                             [op |-> "delete", ids |-> ids]>>
        /\ moves' = IF failure = "none"
                      THEN Move_delete(cancelled, ms)
                      ELSE moves
        /\ last' = [op |-> "cancel_move",
                    result |-> IF failure = "none" THEN "ok" ELSE "UserError",
                    lines |-> ls]
        /\ UNCHANGED <<lines, move, request_vars, url_vars, register_vars>>

StockSpecInit ==
    /\ StockInit /\ RequestInit /\ UrlInit /\ RegisterInit
    /\ last = StockIdle

StockNext ==
    \/ \E quantity \in (-1)..MaxQuantity, uom \in Uoms :
          line_create(quantity, uom)
    \/ \E l \in 1..Len(lines) : get_move(l)
    \/ move_save
    \/ \E ls \in SUBSET (1..Len(lines)),
          failure \in {"none", "cancel", "delete"} : cancel_move(ls, failure)

\* The inventory lines and the stock moves that originate from them.
StockSpec == StockSpecInit /\ [][StockNext]_vars

\* The line get_move was last called on.
LastLine == lines[CHOOSE l \in last.lines : TRUE]

\* C6 as stated: for a line with positive quantity q the movement has
\* quantity q and goes from the inventory's location to its lost-and-found
\* location (no swap).
C6_NotSwapped ==
    (last.op = "get_move" /\ LastLine.quantity > 0) =>
        /\ move # <<>>
        /\ move[1].quantity = LastLine.quantity
        /\ move[1].from_location = inventory.location
        /\ move[1].to_location = inventory.lost_found

\* C6 amended: for a line with positive quantity q the movement has quantity
\* q and the swapped orientation: from the inventory's lost-and-found
\* location to its location.
C6_Swapped ==
    (last.op = "get_move" /\ LastLine.quantity > 0) =>
        /\ move # <<>>
        /\ move[1].quantity = LastLine.quantity
        /\ move[1].from_location = inventory.lost_found
        /\ move[1].to_location = inventory.location

\* C6 witness: get_move has run on a line of quantity 2 counted in dozens.
C6_Witness ==
    /\ last.op = "get_move"
    /\ LastLine.quantity = 2 /\ LastLine.uom.name = "Dozen"
    /\ move # <<>>

\* C7: for a line with quantity q >= 0 get_move returns no movement exactly
\* when q = 0, a returned movement has quantity q > 0, and no movement,
\* returned or stored, carries a negative or zero quantity; no stored line
\* has a negative quantity.
C7_MovementQuantityPositive ==
    /\ \A l \in 1..Len(lines) : lines[l].quantity >= 0
    /\ last.op = "get_move" =>
          /\ (move = <<>>) <=> (LastLine.quantity = 0)
          /\ move # <<>> => move[1].quantity = LastLine.quantity
    /\ move # <<>> => move[1].quantity > 0
    /\ \A m \in moves : m.quantity > 0 /\ m.quantity = lines[m.origin].quantity

\* C7 witness: get_move returned nothing for a line of quantity 0 while a
\* movement generated for another line is stored.
C7_Witness ==
    /\ last.op = "get_move" /\ LastLine.quantity = 0 /\ move = <<>>
    /\ moves # {}

\* C8: cancel_move cancels and then deletes exactly the movements that
\* originate from the given lines: afterwards none of them exists, the other
\* movements are untouched, and when the cancel or the delete raises no
\* movement is removed.
C8_CancelMove ==
    [][ last'.op = "cancel_move" =>
          LET mine == {m \in moves : m.origin \in last'.lines}
          IN  IF last'.result = "ok"
                THEN /\ moves' = moves \ mine
                     /\ calls' = <<[op |-> "cancel", ids |-> {m.id : m \in mine}],
                                   [op |-> "delete", ids |-> {m.id : m \in mine}]>>
                ELSE moves' = moves
      ]_vars

\* C8 witness: a cancel_move cancelled and deleted the movements of its lines
\* and left a movement of another line in place.
C8_Witness ==
    /\ last.op = "cancel_move" /\ last.result = "ok"
    /\ Len(calls) = 2 /\ calls[2].op = "delete" /\ calls[2].ids # {}
    /\ moves # {}
    /\ \A m \in moves : m.origin \notin last.lines

(***************************************************************************)
(* InventoryLine.__register__                                              *)
(***************************************************************************)
MaxLegacyLines == 3
MaxLegacyMoves == 2

\* The names the module binds at top level: its imports and its classes.
module_globals ==
    {"datetime", "timedelta", "date", "backend", "Eval", "Not", "Bool",
     "PYSONEncoder", "Equal", "ModelView", "ModelSingleton", "ModelSQL",
     "fields", "Unique", "Check", "Pool", "Transaction", "PolicoopSequences",
     "TransportRequest", "AmbulanceTransport", "TransportHealthProfessional",
     "InventoryLine"}

\* Evaluating a global name raises NameError unless the module binds it.
name_bound(name) == name \in module_globals

\* '%s,%s' % (cls.__name__, line_id)
origin_reference(line_id) == "policoop.transport.line," \o str(line_id)

\* The rows (line id, move id) of the select: the lines whose move is not NULL.
RECURSIVE fetchall(_, _)
fetchall(column, l) ==
    IF l > Len(column) THEN <<>>
    ELSE IF column[l] # <<>>
      THEN <<[line_id |-> l, move_id |-> column[l][1]]>>
             \o fetchall(column, l + 1)
      ELSE fetchall(column, l + 1)

\* The loop of updates over the fetched rows rows[i..].
RECURSIVE update_origins(_, _, _)
update_origins(origin, rows, i) ==
    IF i > Len(rows) THEN origin
    ELSE update_origins(
           [origin EXCEPT ![rows[i].move_id] = origin_reference(rows[i].line_id)],
           rows, i + 1)

NoColumn == [l \in 1..MaxLegacyLines |-> <<>>]

\* __register__(module_name). A NameError ends the update of the module; the
\* database takes the dropped constraint back or not.
__register__ ==
    IF column_exist /\ ~name_bound("Null")
      THEN /\ constraint' \in {constraint, FALSE}
           /\ last' = [op |-> "__register__", result |-> "NameError",
                       column |-> column_exist, line_move |-> line_move]
           /\ UNCHANGED <<column_exist, line_move, move_origin,
                          request_vars, url_vars, stock_vars>>
      ELSE /\ constraint' = FALSE
           /\ move_origin' = IF column_exist
                               THEN update_origins(move_origin,
                                                   fetchall(line_move, 1), 1)
                               ELSE move_origin
           /\ column_exist' = FALSE
           /\ line_move' = NoColumn
           /\ last' = [op |-> "__register__", result |-> "ok",
                       column |-> column_exist, line_move |-> line_move]
           /\ UNCHANGED <<request_vars, url_vars, stock_vars>>

\* The installations __register__ may meet: with or without the legacy
\* column and constraint, any move references in the column, and moves whose
\* origin is unset or points at another record.
LegacyOrigins == {None, "stock.inventory,1"}

RegisterSpecInit ==
    /\ column_exist \in BOOLEAN
    /\ constraint \in BOOLEAN
    /\ line_move \in [1..MaxLegacyLines ->
                        {<<>>} \cup {<<m>> : m \in 1..MaxLegacyMoves}]
    /\ ~column_exist => line_move = NoColumn
    /\ move_origin \in [1..MaxLegacyMoves -> LegacyOrigins]
    /\ last = [op |-> "none", result |-> "ok", column |-> column_exist,
               line_move |-> line_move]
    /\ RequestInit /\ UrlInit /\ StockInit

RegisterNext == __register__

\* The schema update of policoop.transport.line, run any number of times.
RegisterSpec == RegisterSpecInit /\ [][RegisterNext]_vars

\* C10: when the legacy column exists, __register__ completes, the column is
\* gone, and the movement every line referenced has that line as its origin.
C10_Migrated ==
    (last.op = "__register__" /\ last.column) =>
        /\ last.result = "ok"
        /\ ~column_exist
        /\ \A l \in 1..MaxLegacyLines :
              last.line_move[l] # <<>> =>
                 move_origin[last.line_move[l][1]] = origin_reference(l)

====
